---- MODULE Spec2Model ----
(***************************************************************************)
(* importance_sampling/layers/metrics.py: MetricLayer, TripletLossLayer    *)
(* and matthews_correlation.                                               *)
(*                                                                         *)
(* Tensors are modelled with their shape and their values.  Values are     *)
(* exact rationals extended with the IEEE specials the backend produces    *)
(* on a division by zero (nan, +inf, -inf).                                *)
(***************************************************************************)
EXTENDS Integers, Sequences, FiniteSets, TLC

(***************************************************************************)
(* Bounds of the model.                                                    *)
(***************************************************************************)
\* MetricLayer.call: the metric has at most MaxCells (sample, position) cells
MaxCells == 2
\* MetricLayer.call: the widths (last dimension) of y_true and of y_pred
MaxWidth == 2
\* TripletLossLayer.call: batch * width of the input tensor
MaxTripletCells == 6
\* matthews_correlation: number of elements of y_true (and of y_pred)
MaxElems == 2

(***************************************************************************)
(* Numbers: <<n, d>> with d > 0 and gcd(n, d) = 1 is the rational n/d;     *)
(* <<0,0>> is nan, <<1,0>> is +inf, <<-1,0>> is -inf.                      *)
(***************************************************************************)
Abs(i) == IF i < 0 THEN -i ELSE i

Sign(i) == IF i < 0 THEN -1 ELSE IF i = 0 THEN 0 ELSE 1

RECURSIVE GCD(_, _)
GCD(a, b) == IF b = 0 THEN a ELSE GCD(b, a % b)

Norm(n, d) ==
    IF d = 0 THEN <<Sign(n), 0>>
    ELSE LET g == GCD(Abs(n), Abs(d))
         IN  <<(Sign(d) * n) \div g, Abs(d) \div g>>

NaN == <<0, 0>>

Num(i) == <<i, 1>>

IsNaN(a) == a = NaN

IsFinite(a) == a[2] # 0

RAdd(a, b) ==
    IF ~IsFinite(a) /\ ~IsFinite(b) /\ a = b THEN a
    ELSE Norm(a[1] * b[2] + b[1] * a[2], a[2] * b[2])

RNeg(a) == <<-a[1], a[2]>>

RSub(a, b) == RAdd(a, RNeg(b))

RMul(a, b) == Norm(a[1] * b[1], a[2] * b[2])

RDiv(a, b) == Norm(a[1] * b[2] * (IF b[1] < 0 THEN -1 ELSE 1), a[2] * Abs(b[1]))

\* comparison of two finite numbers
RLeq(a, b) == a[1] * b[2] <= b[1] * a[2]

IsSquare(n) == n >= 0 /\ \E r \in 0..n : r * r = n

ISqrt(n) == CHOOSE r \in 0..n : r * r = n

\* K.sqrt on the numbers whose root is rational
RSqrt(a) ==
    IF IsNaN(a) \/ a[1] < 0 THEN NaN
    ELSE IF ~IsFinite(a) THEN a
    ELSE <<ISqrt(a[1]), ISqrt(a[2])>>

HasRationalRoot(a) == IsFinite(a) /\ IsSquare(a[1]) /\ IsSquare(a[2])

(***************************************************************************)
(* Tensors: [shape |-> <<d1, ..., dr>>, data |-> [Indices(shape) -> number]]*)
(* A failed operation (shapes that do not broadcast) yields Error.         *)
(***************************************************************************)
Error == [shape |-> <<-1>>, data |-> <<>>]

IsError(t) == t = Error

RECURSIVE SeqMax(_)
SeqMax(s) == IF s = <<>> THEN 0
             ELSE LET m == SeqMax(Tail(s)) IN IF Head(s) > m THEN Head(s) ELSE m

Indices(shape) ==
    {idx \in [1..Len(shape) -> 1..SeqMax(shape)] :
        \A k \in 1..Len(shape) : idx[k] <= shape[k]}

Tensor(shape, f(_)) == [shape |-> shape, data |-> [idx \in Indices(shape) |-> f(idx)]]

Rank(t) == Len(t.shape)

\* K.int_shape
int_shape(t) == t.shape

Scalar(v) == [shape |-> <<>>, data |-> [idx \in {<<>>} |-> v]]

RECURSIVE SumOver(_, _)
SumOver(f, S) ==
    IF S = {} THEN Num(0)
    ELSE LET i == CHOOSE j \in S : TRUE
         IN  RAdd(f[i], SumOver(f, S \ {i}))

\* numpy broadcasting of two shapes, aligned on the trailing dimensions
Dim(s, k, r) == IF k <= r - Len(s) THEN 1 ELSE s[k - (r - Len(s))]

MaxRank(s1, s2) == IF Len(s1) > Len(s2) THEN Len(s1) ELSE Len(s2)

Broadcastable(s1, s2) ==
    LET r == MaxRank(s1, s2)
    IN  \A k \in 1..r : \/ Dim(s1, k, r) = Dim(s2, k, r)
                        \/ Dim(s1, k, r) = 1
                        \/ Dim(s2, k, r) = 1

BroadcastShape(s1, s2) ==
    LET r == MaxRank(s1, s2)
    IN  [k \in 1..r |-> IF Dim(s1, k, r) = 1 THEN Dim(s2, k, r) ELSE Dim(s1, k, r)]

\* the index of the operand's element that lands on idx of the result
Project(idx, s) ==
    LET off == Len(idx) - Len(s)
    IN  [k \in 1..Len(s) |-> IF s[k] = 1 THEN 1 ELSE idx[k + off]]

Elementwise(Op(_, _), a, b) ==
    IF IsError(a) \/ IsError(b) \/ ~Broadcastable(a.shape, b.shape) THEN Error
    ELSE LET s == BroadcastShape(a.shape, b.shape)
         IN  Tensor(s, LAMBDA idx : Op(a.data[Project(idx, a.shape)],
                                       b.data[Project(idx, b.shape)]))

TAdd(a, b) == Elementwise(RAdd, a, b)

TSub(a, b) == Elementwise(RSub, a, b)

TMul(a, b) == Elementwise(RMul, a, b)

TDiv(a, b) == Elementwise(RDiv, a, b)

\* K.expand_dims(t): a new trailing axis of size 1
expand_dims(t) ==
    IF IsError(t) THEN Error
    ELSE Tensor(Append(t.shape, 1), LAMBDA idx : t.data[SubSeq(idx, 1, Len(idx) - 1)])

\* K.squeeze(t, axis=-1)
squeeze(t) ==
    IF IsError(t) THEN Error
    ELSE Tensor(SubSeq(t.shape, 1, Rank(t) - 1), LAMBDA idx : t.data[Append(idx, 1)])

\* K.sum(t, axis=-1, keepdims=True) (for a rank 2 tensor: axis=1)
sum_last(t) ==
    IF IsError(t) THEN Error
    ELSE LET r == Rank(t)
             s == [k \in 1..r |-> IF k = r THEN 1 ELSE t.shape[k]]
         IN  Tensor(s, LAMBDA idx :
                 SumOver(t.data, {j \in Indices(t.shape) :
                                     \A k \in 1..(r - 1) : j[k] = idx[k]}))

\* K.mean(t, axis=-1, keepdims=True)
mean_last(t) ==
    IF IsError(t) THEN Error
    ELSE TDiv(sum_last(t), Scalar(Num(t.shape[Rank(t)])))

\* K.mean(t, axis=list(range(1, dims))): the mean over every axis but the first
mean_rest(t) ==
    IF IsError(t) THEN Error
    ELSE LET n == Cardinality({j \in Indices(t.shape) : j[1] = 1})
         IN  Tensor(<<t.shape[1]>>, LAMBDA idx :
                 RDiv(SumOver(t.data, {j \in Indices(t.shape) : j[1] = idx[1]}),
                      Num(n)))

(***************************************************************************)
(* Python values of MetricLayer.  Chars spells a str as the sequence of    *)
(* its characters, so that `"acc" in s` is the substring test of Python.   *)
(***************************************************************************)
acc == "acc"

accuracy == "accuracy"

binary_accuracy == "binary_accuracy"

mse == "mse"

mcc_name == "matthews_correlation"

generic_accuracy_name == "_generic_accuracy"

Chars(s) ==
    CASE s = "acc" -> <<"a", "c", "c">>
      [] s = "accuracy" -> <<"a", "c", "c", "u", "r", "a", "c", "y">>
      [] s = "binary_accuracy" ->
            <<"b", "i", "n", "a", "r", "y", "_", "a", "c", "c", "u", "r", "a", "c", "y">>
      [] s = "mse" -> <<"m", "s", "e">>
      [] s = "matthews_correlation" ->
            <<"m", "a", "t", "t", "h", "e", "w", "s", "_",
              "c", "o", "r", "r", "e", "l", "a", "t", "i", "o", "n">>

Str(s) == [type |-> "str", name |-> s]

\* a callable, with its __name__
Function(name) == [type |-> "function", name |-> name]

isinstance_str(v) == v.type = "str"

\* Python's `sub in s` for two str
Contains(sub, s) ==
    \E i \in 0..(Len(Chars(s)) - Len(Chars(sub))) :
        SubSeq(Chars(s), i + 1, i + Len(Chars(sub))) = Chars(sub)

\* the metric identifiers a layer is constructed with
MetricIdentifiers ==
    {Str(accuracy), Str(binary_accuracy), Str(mse), Str(mcc_name),
     Function(mcc_name), Function(mse)}

\* the batch_metrics lists a layer is constructed with
BatchMetricLists ==
    {<<>>, <<Function(mcc_name), Str(mse)>>}

(***************************************************************************)
(* MetricLayer.__init__                                                    *)
(***************************************************************************)
\* [m if isinstance(m, str) else m.__name__ for m in batch_metrics]
BatchMetricNames(batch_metrics) ==
    {batch_metrics[i].name : i \in 1..Len(batch_metrics)}

InitRepeat(metric_func_arg, batch_metrics_arg) ==
    IF ~isinstance_str(metric_func_arg)
    THEN metric_func_arg.name \in BatchMetricNames(batch_metrics_arg)
    ELSE FALSE

(***************************************************************************)
(* MetricLayer.build                                                       *)
(***************************************************************************)
\* `"acc" in self.metric_func`; a TypeError (not iterable) is caught: no substitution
IsAccuracyIdentifier(f) == isinstance_str(f) /\ Contains(acc, f.name)

\* keras.metrics.get: a str is looked up by name, a callable is returned as it is
get_metric(f) == IF isinstance_str(f) THEN Function(f.name) ELSE f

\* utils.functional.compose(K.expand_dims, g): the function that applies g and
\* then K.expand_dims, which gives the result a trailing axis of size 1
compose(outer, g) == [type |-> "composed", outer |-> outer, name |-> g.name]

BuildMetricFunc(f) ==
    LET substituted == IF IsAccuracyIdentifier(f)
                       THEN Function(generic_accuracy_name) ELSE f
    IN  compose("expand_dims", get_metric(substituted))

(***************************************************************************)
(* MetricLayer.compute_output_shape, compute_mask                          *)
(***************************************************************************)
compute_output_shape(input_shape) == <<input_shape[1][1], 1>>

(***************************************************************************)
(* MetricLayer._generic_accuracy: the accuracy it dispatches to            *)
(***************************************************************************)
generic_accuracy(y_true_shape, y_pred_shape) ==
    IF y_pred_shape[2] = 1 THEN "binary_accuracy"
    ELSE IF y_true_shape[Len(y_true_shape)] = 1 THEN "sparse_categorical_accuracy"
    ELSE "categorical_accuracy"

(***************************************************************************)
(* MetricLayer.call                                                        *)
(***************************************************************************)
\* Python values of the mask argument: None, one tensor, or a list of both
PyNone == [type |-> "NoneType", items |-> <<>>]

PyTensor(t) == [type |-> "tensor", items |-> <<t>>]

PyList(l) == [type |-> "list", items |-> l]

\* K.cast(m, K.floatx()) of a boolean mask
cast_floatx(m) == Tensor(m.shape, LAMBDA idx : IF m.data[idx] THEN Num(1) ELSE Num(0))

\* The metric functions return one value per sample (position): the keras
\* metrics reduce the last axis; matthews_correlation returns one K.sum-based
\* value for the whole batch.
IsBatchLevel(fname) == fname = mcc_name

ResultShape(fname, y_true_shape) ==
    IF IsBatchLevel(fname) THEN <<>>
    ELSE SubSeq(y_true_shape, 1, Len(y_true_shape) - 1)

\* K.map_fn(lambda x: x + metric, tmp_metric): one row per sample, stacked
map_fn_add(tmp, metric) ==
    LET rowshape == Tail(tmp.shape)
    IN  IF IsError(metric) \/ ~Broadcastable(rowshape, metric.shape) THEN Error
        ELSE Tensor(<<tmp.shape[1]>> \o BroadcastShape(rowshape, metric.shape),
                    LAMBDA idx :
                        RAdd(tmp.data[<<idx[1]>> \o Project(Tail(idx), rowshape)],
                             metric.data[Project(Tail(idx), metric.shape)]))

\* a variant of RepeatMetric that forgets to add the metric to the zeros
RepeatMetric_Zeros(metric, repeat_flag, y_true_shape) ==
    IF repeat_flag THEN Tensor(y_true_shape, LAMBDA idx : Num(0)) ELSE metric

\* the repeat of a batch-level metric over the samples
RepeatMetric(metric, repeat_flag, y_true_shape) ==
    IF repeat_flag
    THEN map_fn_add(Tensor(y_true_shape, LAMBDA idx : Num(0)), metric)
    ELSE metric

\* the squeeze of a trailing axis of size 1
SqueezeMetric(metric) ==
    IF IsError(metric) THEN Error
    ELSE IF int_shape(metric)[Rank(metric)] = 1 THEN squeeze(metric)
    ELSE metric

\* reduce(lambda a, b: a*b, masks); reduce of an empty list raises
RECURSIVE ReduceMul(_)
ReduceMul(masks) ==
    IF masks = <<>> THEN Error
    ELSE IF Len(masks) = 1 THEN masks[1]
    ELSE TMul(ReduceMul(SubSeq(masks, 1, Len(masks) - 1)), masks[Len(masks)])

\* the masks as floats, multiplied
CombinedMask(mask_arg) ==
    LET lst  == IF mask_arg.type # "list" THEN <<mask_arg>> ELSE mask_arg.items
        kept == SelectSeq(lst, LAMBDA m : m.type # "NoneType")
    IN  ReduceMul([i \in 1..Len(kept) |-> cast_floatx(kept[i].items[1])])

\* a variant of ApplyMask without the division by the mean of the mask
ApplyMask_NoNormalize(metric, mask_arg) ==
    IF mask_arg.type = "NoneType" THEN metric
    ELSE TMul(metric, CombinedMask(mask_arg))

\* metric *= mask; metric /= K.mean(mask, axis=-1, keepdims=True)
ApplyMask(metric, mask_arg) ==
    IF mask_arg.type = "NoneType" THEN metric
    ELSE LET m == CombinedMask(mask_arg)
         IN  TDiv(TMul(metric, m), mean_last(m))

\* the mean over all axes but the first, and K.expand_dims
ReduceToBatch(metric) ==
    IF IsError(metric) THEN Error
    ELSE expand_dims(IF Rank(metric) > 1 THEN mean_rest(metric) ELSE metric)

\* MetricLayer.call, given the value raw_metric the wrapped function returns
CallMetric(raw_metric, repeat_flag, y_true_shape, mask_arg) ==
    ReduceToBatch(
        ApplyMask(
            SqueezeMetric(RepeatMetric(expand_dims(raw_metric), repeat_flag, y_true_shape)),
            mask_arg))

(***************************************************************************)
(* The inputs of MetricLayer.call                                          *)
(***************************************************************************)
\* values a metric function returns: per sample (position), and for a batch
SampleVals == {Num(0), Num(1)}

BatchVals == {Num(0), Num(1), Num(2)}

MetricVals(fname) == IF IsBatchLevel(fname) THEN BatchVals ELSE SampleVals

\* shapes without the last axis: (batch,) or (batch, positions)
PositionShapes ==
    {<<b>> : b \in 1..MaxCells}
    \cup {s \in {<<b, t>> : b \in 1..MaxCells, t \in 1..MaxCells} : s[1] * s[2] <= MaxCells}

TensorsOf(shape, vals) ==
    {[shape |-> shape, data |-> d] : d \in [Indices(shape) -> vals]}

\* the shapes for which a list of two mask tensors is drawn
PairShapes == {<<2>>, <<1, 2>>}

MaskArgs(shape) ==
    LET one == {PyTensor(m) : m \in TensorsOf(shape, BOOLEAN)}
    IN  {PyNone} \cup one
        \cup {PyList(<<PyNone, m>>) : m \in one}
        \cup {PyList(<<m, PyNone>>) : m \in one}
        \cup (IF shape \in PairShapes
              THEN {PyList(<<a, b>>) : a \in one, b \in one} ELSE {})

\* the example of the masked mean: values [1,1,1,1] with mask [1,1,0,0],
\* as four samples and as the four positions of one sample
ExampleMask(shape) ==
    PyTensor(Tensor(shape, LAMBDA idx : idx[Len(idx)] <= 2))

ExampleCalls ==
    {[y_true |-> Append(ps, 1), y_pred |-> Append(ps, 1),
      raw |-> Tensor(ps, LAMBDA idx : Num(1)), mask |-> ExampleMask(ps)]
        : ps \in {<<4>>, <<1, 4>>}}

CallArgs(fname) ==
    UNION {
        {[y_true |-> Append(ps, wt), y_pred |-> Append(ps, wp), raw |-> r, mask |-> m]
            : wt \in 1..MaxWidth, wp \in 1..MaxWidth,
              r \in TensorsOf(ResultShape(fname, Append(ps, 1)), MetricVals(fname)),
              m \in MaskArgs(ps)}
        : ps \in PositionShapes}
    \cup (IF IsBatchLevel(fname) THEN {} ELSE ExampleCalls)

(***************************************************************************)
(* TripletLossLayer                                                        *)
(***************************************************************************)
\* TripletLossLayer.build: self.N
BuildN(input_shape) == input_shape[2] \div 3

\* TripletLossLayer.compute_output_shape
triplet_output_shape(input_shape) == <<input_shape[1], 1>>

\* x[:, lo:hi] of a (batch, width) tensor, the bounds clamped as Python clamps them
Slice(t, lo, hi) ==
    LET w == t.shape[2]
        a == IF lo > w THEN w ELSE lo
        b == IF hi > w THEN w ELSE hi
    IN  Tensor(<<t.shape[1], IF b > a THEN b - a ELSE 0>>,
               LAMBDA idx : t.data[<<idx[1], idx[2] + a>>])

\* xa = x[:, :N]
AnchorSlice(t, n) == Slice(t, 0, n)

\* xp = x[:, N:2*N]
PositiveSlice(t, n) == Slice(t, n, 2 * n)

\* a variant of NegativeSlice that stops at 3*N
NegativeSlice_To3N(t, n) == Slice(t, 2 * n, 3 * n)

\* xn = x[:, 2*N:]
NegativeSlice(t, n) == Slice(t, 2 * n, t.shape[2])

\* K.sqrt, elementwise
TSqrt(t) == IF IsError(t) THEN Error ELSE Tensor(t.shape, LAMBDA idx : RSqrt(t.data[idx]))

\* v / K.sqrt(K.sum(v**2, axis=1, keepdims=True))
L2Normalize(v) == TDiv(v, TSqrt(sum_last(TMul(v, v))))

\* a variant of SquaredDistance that forgets the square
SquaredDistance_NoSquare(a, b) == sum_last(TSub(a, b))

\* K.sum(K.square(a - b), axis=1, keepdims=True)
SquaredDistance(a, b) == sum_last(TMul(TSub(a, b), TSub(a, b)))

\* TripletLossLayer.call
TripletCall(t, n) ==
    LET xa == L2Normalize(AnchorSlice(t, n))
        xp == L2Normalize(PositiveSlice(t, n))
        xn == L2Normalize(NegativeSlice(t, n))
    IN  TSub(SquaredDistance(xa, xn), SquaredDistance(xa, xp))

\* the entries of the embeddings
Entries == {Num(-1), Num(0), Num(1)}

TripletShapes ==
    {s \in {<<b, w>> : b \in 1..MaxTripletCells, w \in 1..MaxTripletCells} :
        s[1] * s[2] <= MaxTripletCells}

\* the inputs whose three norms are rational, so that K.sqrt is exact on them
NormsAreRational(t, n) ==
    \A v \in {AnchorSlice(t, n), PositiveSlice(t, n), NegativeSlice(t, n)} :
        \A idx \in Indices(<<v.shape[1], 1>>) :
            HasRationalRoot(sum_last(TMul(v, v)).data[idx])

TripletInputs(shape) ==
    {t \in TensorsOf(shape, Entries) : NormsAreRational(t, BuildN(shape))}

(***************************************************************************)
(* matthews_correlation                                                    *)
(***************************************************************************)
\* K.epsilon() is 1 / EpsilonInverse
EpsilonInverse == 10000000

epsilon == <<1, EpsilonInverse>>

\* K.clip(v, 0, 1)
clip01(v) == IF RLeq(v, Num(0)) THEN Num(0) ELSE IF RLeq(Num(1), v) THEN Num(1) ELSE v

\* K.round, away from the ties (n + 1/2), which the backends round differently
round(v) == Num((2 * v[1] + v[2]) \div (2 * v[2]))

TMap(Op(_), t) == Tensor(t.shape, LAMBDA idx : Op(t.data[idx]))

\* a variant of Positives that forgets the clip
Positives_NoClip(y) == TMap(round, y)

\* K.round(K.clip(y, 0, 1))
Positives(y) == TMap(round, TMap(clip01, y))

\* 1 - y_pos
Negatives(y_pos) == TSub(Scalar(Num(1)), y_pos)

\* K.sum(a * b)
SumProduct(a, b) == LET p == TMul(a, b) IN SumOver(p.data, Indices(p.shape))

Confusion(yt, yp) ==
    LET y_pred_pos == Positives(yp)
        y_pred_neg == Negatives(y_pred_pos)
        y_pos == Positives(yt)
        y_neg == Negatives(y_pos)
    IN  [tp |-> SumProduct(y_pos, y_pred_pos),
         tn |-> SumProduct(y_neg, y_pred_neg),
         fp |-> SumProduct(y_neg, y_pred_pos),
         fn |-> SumProduct(y_pos, y_pred_neg)]

\* a variant of Numerator with the wrong sign
Numerator_Plus(c) == RAdd(RMul(c.tp, c.tn), RMul(c.fp, c.fn))

\* numerator = (tp * tn - fp * fn)
Numerator(c) == RSub(RMul(c.tp, c.tn), RMul(c.fp, c.fn))

\* the argument of K.sqrt in the denominator
Radicand(c) ==
    RMul(RMul(RAdd(c.tp, c.fp), RAdd(c.tp, c.fn)),
         RMul(RAdd(c.tn, c.fp), RAdd(c.tn, c.fn)))

\* stands for a value with an irrational denominator, which is not computed
Irrational == <<0, -1>>

\* numerator / (denominator + K.epsilon())
Quotient(num, rad) ==
    IF HasRationalRoot(rad) THEN RDiv(num, RAdd(RSqrt(rad), epsilon)) ELSE Irrational

\* the scores of y_true and y_pred, inside and outside [0, 1]
Scores == {<<-3, 5>>, Num(0), <<2, 5>>, <<3, 5>>, Num(1), <<8, 5>>}

(***************************************************************************)
(* State                                                                   *)
(***************************************************************************)
VARIABLES
    metric_func_arg, \* the metric_func argument of MetricLayer.__init__
    batch_metrics,   \* the batch_metrics argument of MetricLayer.__init__
    metric_func,     \* MetricLayer.metric_func
    repeat,          \* MetricLayer.repeat
    built,           \* Layer.built of the MetricLayer
    called,          \* the tensors of a call of the MetricLayer are held
    inputs,          \* <<shape of y_true, shape of y_pred>> of that call
    mask,            \* its mask argument
    raw,             \* what the wrapped metric function returned in it
    branch,          \* the accuracy _generic_accuracy dispatched to in it
    output,          \* the tensor it returned
    input_shape,     \* the input_shape TripletLossLayer.build was given
    N,               \* TripletLossLayer.N
    triplet_built,   \* TripletLossLayer.built
    triplet_called,  \* the tensors of a call of the TripletLossLayer are held
    x,               \* the input of that call
    loss,            \* the tensor it returned
    y_true,          \* matthews_correlation: y_true
    y_pred,          \* matthews_correlation: y_pred
    returned,        \* matthews_correlation has returned
    confusion,       \* its tp, tn, fp, fn
    numerator,       \* its numerator
    radicand,        \* the argument of K.sqrt in its denominator
    mcc              \* the value it returned

layer_vars == <<metric_func_arg, batch_metrics, metric_func, repeat, built>>

call_vars == <<called, inputs, mask, raw, branch, output>>

triplet_vars == <<input_shape, N, triplet_built, triplet_called, x, loss>>

mcc_vars == <<y_true, y_pred, returned, confusion, numerator, radicand, mcc>>

vars == <<layer_vars, call_vars, triplet_vars, mcc_vars>>

NoTensor == Scalar(Num(0))

NoCall ==
    /\ called = FALSE
    /\ inputs = <<<<>>, <<>>>>
    /\ mask = PyNone
    /\ raw = NoTensor
    /\ branch = "none"
    /\ output = NoTensor

\* no MetricLayer is in use
MetricIdle ==
    /\ metric_func_arg = Str(mse)
    /\ batch_metrics = <<>>
    /\ metric_func = Str(mse)
    /\ repeat = FALSE
    /\ built = FALSE
    /\ NoCall

\* TripletLossLayer()
TripletNew ==
    /\ input_shape = <<>>
    /\ N = 0
    /\ triplet_built = FALSE
    /\ triplet_called = FALSE
    /\ x = NoTensor
    /\ loss = NoTensor

NoConfusion == [tp |-> Num(0), tn |-> Num(0), fp |-> Num(0), fn |-> Num(0)]

\* matthews_correlation is not in use
MccIdle ==
    /\ y_true = NoTensor
    /\ y_pred = NoTensor
    /\ returned = FALSE
    /\ confusion = NoConfusion
    /\ numerator = Num(0)
    /\ radicand = Num(0)
    /\ mcc = Num(0)

(***************************************************************************)
(* MetricLayer: construction, build, call                                  *)
(***************************************************************************)
\* MetricLayer(metric_func, batch_metrics)
MetricInit ==
    /\ metric_func_arg \in MetricIdentifiers
    /\ batch_metrics \in BatchMetricLists
    /\ metric_func = metric_func_arg
    /\ repeat = InitRepeat(metric_func_arg, batch_metrics)
    /\ built = FALSE
    /\ NoCall
    /\ TripletNew
    /\ MccIdle

\* MetricLayer.build (the framework builds a layer once, before its first call)
Build ==
    /\ ~built
    /\ metric_func' = BuildMetricFunc(metric_func)
    /\ built' = TRUE
    /\ UNCHANGED <<metric_func_arg, batch_metrics, repeat>>
    /\ UNCHANGED <<call_vars, triplet_vars, mcc_vars>>

\* MetricLayer.call(inputs, mask)
Call ==
    /\ built
    /\ ~called
    /\ \E a \in CallArgs(metric_func.name) :
        /\ inputs' = <<a.y_true, a.y_pred>>
        /\ mask' = a.mask
        /\ raw' = a.raw
        /\ branch' = IF metric_func.name = generic_accuracy_name
                     THEN generic_accuracy(a.y_true, a.y_pred) ELSE "none"
        /\ output' = CallMetric(a.raw, repeat, a.y_true, a.mask)
    /\ called' = TRUE
    /\ UNCHANGED <<layer_vars, triplet_vars, mcc_vars>>

\* the caller drops the tensors of the call
Release ==
    /\ called
    /\ called' = FALSE
    /\ inputs' = <<<<>>, <<>>>>
    /\ mask' = PyNone
    /\ raw' = NoTensor
    /\ branch' = "none"
    /\ output' = NoTensor
    /\ UNCHANGED <<layer_vars, triplet_vars, mcc_vars>>

MetricNext == Build \/ Call \/ Release

MetricSpec == MetricInit /\ [][MetricNext]_vars

(***************************************************************************)
(* TripletLossLayer: construction, build, call                             *)
(***************************************************************************)
TripletInit == MetricIdle /\ TripletNew /\ MccIdle

\* TripletLossLayer.build(input_shape), on the shape of the layer's input
TripletBuild ==
    /\ ~triplet_built
    /\ \E s \in TripletShapes :
        /\ input_shape' = s
        /\ N' = BuildN(s)
    /\ triplet_built' = TRUE
    /\ UNCHANGED <<triplet_called, x, loss>>
    /\ UNCHANGED <<layer_vars, call_vars, mcc_vars>>

\* TripletLossLayer.call(x)
TripletCallStep ==
    /\ triplet_built
    /\ ~triplet_called
    /\ \E t \in TripletInputs(input_shape) :
        /\ x' = t
        /\ loss' = TripletCall(t, N)
    /\ triplet_called' = TRUE
    /\ UNCHANGED <<input_shape, N, triplet_built>>
    /\ UNCHANGED <<layer_vars, call_vars, mcc_vars>>

\* the caller drops the tensors of the call
TripletRelease ==
    /\ triplet_called
    /\ triplet_called' = FALSE
    /\ x' = NoTensor
    /\ loss' = NoTensor
    /\ UNCHANGED <<input_shape, N, triplet_built>>
    /\ UNCHANGED <<layer_vars, call_vars, mcc_vars>>

TripletNext == TripletBuild \/ TripletCallStep \/ TripletRelease

TripletSpec == TripletInit /\ [][TripletNext]_vars

(***************************************************************************)
(* matthews_correlation(y_true, y_pred)                                    *)
(***************************************************************************)
MccInit ==
    /\ MetricIdle
    /\ TripletNew
    /\ \E n \in 1..MaxElems :
        /\ y_true \in TensorsOf(<<n>>, Scores)
        /\ y_pred \in TensorsOf(<<n>>, Scores)
    /\ returned = FALSE
    /\ confusion = NoConfusion
    /\ numerator = Num(0)
    /\ radicand = Num(0)
    /\ mcc = Num(0)

Matthews ==
    /\ ~returned
    /\ confusion' = Confusion(y_true, y_pred)
    /\ numerator' = Numerator(confusion')
    /\ radicand' = Radicand(confusion')
    /\ mcc' = Quotient(numerator', radicand')
    /\ returned' = TRUE
    /\ UNCHANGED <<y_true, y_pred>>
    /\ UNCHANGED <<layer_vars, call_vars, triplet_vars>>

MccNext == Matthews

MccSpec == MccInit /\ [][MccNext]_vars

(***************************************************************************)
(* What a call of the MetricLayer is about, read from the held tensors     *)
(***************************************************************************)
BatchSize == inputs[1][1]

\* the shape of the positions: the input shape without its last axis
Positions == SubSeq(inputs[1], 1, Len(inputs[1]) - 1)

PositionsOf(b) == {idx \in Indices(Positions) : idx[1] = b}

MaskTensors ==
    LET lst == IF mask.type = "list" THEN mask.items ELSE <<mask>>
    IN  {lst[i].items[1] : i \in {j \in 1..Len(lst) : lst[j].type = "tensor"}}

\* a position is valid when no mask masks it out
IsValid(idx) == \A m \in MaskTensors : m.data[idx]

ValidPositionsOf(b) == {idx \in PositionsOf(b) : IsValid(idx)}

\* the metric at a position: the function's value there, or its batch value
MetricAt(idx) == IF raw.shape = <<>> THEN raw.data[<<>>] ELSE raw.data[idx]

RECURSIVE SumMetric(_)
SumMetric(S) ==
    IF S = {} THEN Num(0)
    ELSE LET i == CHOOSE j \in S : TRUE
         IN  RAdd(MetricAt(i), SumMetric(S \ {i}))

\* sum(metric * mask) / sum(mask) of sample b
MaskedMeanOf(b) == RDiv(SumMetric(ValidPositionsOf(b)), Num(Cardinality(ValidPositionsOf(b))))

OutputOf(b) == output.data[<<b, 1>>]

HasOutputShape == ~IsError(output) /\ output.shape = <<BatchSize, 1>>

\* the mean over the batch that the framework takes of the layer's output
OutputBatchMean == RDiv(SumOver(output.data, Indices(output.shape)), Num(BatchSize))

AllPositions == Indices(Positions)

ValidPositions == {idx \in AllPositions : IsValid(idx)}

(***************************************************************************)
(* C1: every call with two inputs of batch size B returns a tensor of the  *)
(* shape compute_output_shape declares, (B, 1), whatever the input width,  *)
(* the rank of the metric function's result, the repeat flag and the mask. *)
(***************************************************************************)
C1_OutputShapeIsDeclared ==
    called => /\ ~IsError(output)
              /\ output.shape = compute_output_shape(inputs)

(***************************************************************************)
(* C2: the repeat flag is true exactly when the name of the metric matches *)
(* an entry of batch_metrics, for a metric given as a str or as a          *)
(* callable, and build and call never change it.                           *)
(***************************************************************************)
C2_RepeatIffNameInBatchMetrics ==
    repeat = (metric_func_arg.name \in BatchMetricNames(batch_metrics))

(***************************************************************************)
(* C3: given a mask, the output of every sample with a valid position is   *)
(* the mean of the metric over its valid positions,                        *)
(* sum(metric * mask) / sum(mask).                                         *)
(***************************************************************************)
C3_MaskedMeanPerSample ==
    (called /\ mask # PyNone) =>
        \A b \in 1..BatchSize :
            ValidPositionsOf(b) # {} => (HasOutputShape /\ OutputOf(b) = MaskedMeanOf(b))

(***************************************************************************)
(* C3 as amended, for a metric with one value per position or one value    *)
(* for the batch (the repeat flag not set).  Given a mask of shape         *)
(* (batch, positions), or a list of such masks, the output of every sample *)
(* with a valid position is sum(metric * mask) / sum(mask) over the        *)
(* positions of that sample: values [1,1,1,1] with mask [1,1,0,0] as the   *)
(* four positions of one sample give 1.  Given a mask of shape (batch,),   *)
(* the output of a sample is metric * mask / mean(mask), the mean taken    *)
(* over the batch, so that the mean of the outputs over the batch is       *)
(* sum(metric * mask) / sum(mask): values [1,1,1,1] with mask [1,1,0,0] as *)
(* four samples give the outputs [2,2,0,0], of mean 1.                     *)
(***************************************************************************)
IsMaskedMeanExample(shape) ==
    /\ called
    /\ ~repeat
    /\ inputs[1] = Append(shape, 1)
    /\ raw = Tensor(shape, LAMBDA idx : Num(1))
    /\ mask = ExampleMask(shape)

MaskBit(idx) == IF IsValid(idx) THEN Num(1) ELSE Num(0)

C3_MaskedMeanOverPositions ==
    /\ (called /\ mask # PyNone /\ Len(Positions) = 2 /\ ~repeat) =>
          \A b \in 1..BatchSize :
              ValidPositionsOf(b) # {} =>
                  (HasOutputShape /\ OutputOf(b) = MaskedMeanOf(b))
    /\ (called /\ mask # PyNone /\ Len(Positions) = 1 /\ ~repeat) =>
          /\ HasOutputShape
          /\ \A b \in 1..BatchSize :
                OutputOf(b) = RDiv(RMul(MetricAt(<<b>>), MaskBit(<<b>>)),
                                   RDiv(Num(Cardinality(ValidPositions)), Num(BatchSize)))
          /\ ValidPositions # {} =>
                OutputBatchMean = RDiv(SumMetric(ValidPositions),
                                       Num(Cardinality(ValidPositions)))
    /\ IsMaskedMeanExample(<<1, 4>>) => OutputOf(1) = Num(1)
    /\ IsMaskedMeanExample(<<4>>) => OutputBatchMean = Num(1)

C3_Witness ==
    /\ IsMaskedMeanExample(<<1, 4>>)
    /\ output = Tensor(<<1, 1>>, LAMBDA idx : Num(1))

(***************************************************************************)
(* C4: with the repeat flag set, a batch-level value v of the metric       *)
(* function and no mask, every sample of the output is v, and so is the    *)
(* mean of the output over the batch, for every batch size and width.      *)
(***************************************************************************)
BatchValue == raw.data[<<>>]

C4_RepeatedBatchValue ==
    (called /\ repeat /\ raw.shape = <<>> /\ mask = PyNone) =>
        /\ HasOutputShape
        /\ \A b \in 1..BatchSize : OutputOf(b) = BatchValue
        /\ OutputBatchMean = BatchValue

C4_Witness ==
    /\ called /\ repeat /\ raw.shape = <<>> /\ mask = PyNone
    /\ BatchSize = 2
    /\ inputs[1][Len(inputs[1])] = 2
    /\ BatchValue = Num(2)
    /\ output = Tensor(<<2, 1>>, LAMBDA idx : Num(2))

(***************************************************************************)
(* C5: the accuracy dispatcher decides on the last dimension of its        *)
(* arguments, for every rank: binary accuracy if the last dimension of     *)
(* y_pred is 1, else sparse categorical accuracy if the last dimension of  *)
(* y_true is 1, else categorical accuracy.                                 *)
(***************************************************************************)
LastDim(shape) == shape[Len(shape)]

C5_DispatchOnLastDimension ==
    (called /\ branch # "none") =>
        branch = IF LastDim(inputs[2]) = 1 THEN "binary_accuracy"
                 ELSE IF LastDim(inputs[1]) = 1 THEN "sparse_categorical_accuracy"
                 ELSE "categorical_accuracy"

(***************************************************************************)
(* C6: build substitutes the accuracy dispatcher exactly for the reserved  *)
(* accuracy token; every other identifier is resolved unchanged through    *)
(* the registry; the resolved function is wrapped in expand_dims.          *)
(***************************************************************************)
ReservedAccuracyTokens == {Str("accuracy"), Str("acc")}

C6_SubstitutionOnlyForAccuracy ==
    built =>
        metric_func = compose("expand_dims",
                              IF metric_func_arg \in ReservedAccuracyTokens
                              THEN Function(generic_accuracy_name)
                              ELSE get_metric(metric_func_arg))

(***************************************************************************)
(* What a call of the TripletLossLayer is about                            *)
(***************************************************************************)
Width == input_shape[2]

\* v holds the columns lo+1 .. hi of x (the half-open range [lo, hi))
IsColumns(v, lo, hi) ==
    /\ v.shape = <<x.shape[1], hi - lo>>
    /\ \A idx \in Indices(v.shape) : v.data[idx] = x.data[<<idx[1], idx[2] + lo>>]

Entry(b, j) == x.data[<<b, j>>][1]

RECURSIVE DotDiff(_, _, _, _)
\* the squared distance of the k-vectors of row b that start after columns lo1, lo2
DotDiff(b, lo1, lo2, k) ==
    IF k = 0 THEN 0
    ELSE (Entry(b, lo1 + k) - Entry(b, lo2 + k)) * (Entry(b, lo1 + k) - Entry(b, lo2 + k))
         + DotDiff(b, lo1, lo2, k - 1)

RECURSIVE NormSq(_, _, _)
NormSq(b, lo, k) ==
    IF k = 0 THEN 0 ELSE Entry(b, lo + k) * Entry(b, lo + k) + NormSq(b, lo, k - 1)

UnitNormRow(b) ==
    /\ NormSq(b, 0, N) = 1
    /\ NormSq(b, N, N) = 1
    /\ NormSq(b, 2 * N, N) = 1

Row(b) == [j \in 1..x.shape[2] |-> Entry(b, j)]

(***************************************************************************)
(* C7: for every input width W, N = floor(W / 3) and call splits the input *)
(* at [0,N), [N,2N), [2N,3N): each of the three slices has width N.        *)
(***************************************************************************)
C7_ThreeSlicesOfWidthN ==
    triplet_called =>
        /\ N = Width \div 3
        /\ IsColumns(AnchorSlice(x, N), 0, N)
        /\ IsColumns(PositiveSlice(x, N), N, 2 * N)
        /\ IsColumns(NegativeSlice(x, N), 2 * N, 3 * N)

(***************************************************************************)
(* C7 as amended: N = floor(W / 3); the anchor is [0,N), the positive      *)
(* [N,2N) and the negative [2N,W), all that is left of the input: its      *)
(* width is N + W mod 3, so the three slices have width N exactly when W   *)
(* is a multiple of 3.                                                     *)
(***************************************************************************)
C7_NegativeSliceTakesTheRest ==
    triplet_called =>
        /\ N = Width \div 3
        /\ IsColumns(AnchorSlice(x, N), 0, N)
        /\ IsColumns(PositiveSlice(x, N), N, 2 * N)
        /\ IsColumns(NegativeSlice(x, N), 2 * N, Width)
        /\ NegativeSlice(x, N).shape[2] = N + (Width % 3)
        /\ ((NegativeSlice(x, N).shape[2] = N) <=> (Width % 3 = 0))

C7_Witness ==
    /\ triplet_called
    /\ Width = 5
    /\ N = 1
    /\ NegativeSlice(x, N).shape = <<1, 3>>

Elems == 1..y_true.shape[1]

Label(i) == y_true.data[<<i>>]

Prediction(i) == y_pred.data[<<i>>]

BinaryLabelsOfBothClasses ==
    /\ \A i \in Elems : Label(i) \in {Num(0), Num(1)}
    /\ \E i \in Elems : Label(i) = Num(0)
    /\ \E i \in Elems : Label(i) = Num(1)

RAbs(a) == <<Abs(a[1]), a[2]>>

\* |v - c| <= K.epsilon(): p/q <= 1/EpsilonInverse, as p <= floor(q / EpsilonInverse)
WithinEpsilon(v, c) ==
    /\ v # Irrational
    /\ IsFinite(v)
    /\ LET d == RAbs(RSub(v, Num(c))) IN d[1] <= d[2] \div EpsilonInverse

MarginalSums ==
    {RAdd(confusion.tp, confusion.fp), RAdd(confusion.tp, confusion.fn),
     RAdd(confusion.tn, confusion.fp), RAdd(confusion.tn, confusion.fn)}

(***************************************************************************)
(* C9: on 0/1 labels of both classes, predictions equal to the labels give *)
(* 1 and predictions opposite to the labels give -1, within epsilon; for   *)
(* every input |tp*tn - fp*fn| is at most the square root of               *)
(* (tp+fp)(tp+fn)(tn+fp)(tn+fn).                                           *)
(***************************************************************************)
C9_PerfectAndInverted ==
    returned =>
        /\ (BinaryLabelsOfBothClasses /\ \A i \in Elems : Prediction(i) = Label(i))
              => WithinEpsilon(mcc, 1)
        /\ (BinaryLabelsOfBothClasses
              /\ \A i \in Elems : Prediction(i) = RSub(Num(1), Label(i)))
              => WithinEpsilon(mcc, -1)
        /\ RLeq(RMul(numerator, numerator), radicand)

C9_Witness ==
    /\ returned
    /\ BinaryLabelsOfBothClasses
    /\ \A i \in Elems : Prediction(i) = RSub(Num(1), Label(i))
    /\ numerator = Num(-1)
    /\ WithinEpsilon(mcc, -1)

(***************************************************************************)
(* C10: tp, tn, fp, fn are not negative and sum to the number of elements; *)
(* when one of tp+fp, tp+fn, tn+fp, tn+fn is zero the numerator is zero    *)
(* and the function returns 0, the epsilon keeping the denominator from 0. *)
(***************************************************************************)
C10_CountsAndZeroMarginals ==
    returned =>
        /\ \A c \in {confusion.tp, confusion.tn, confusion.fp, confusion.fn} :
              IsFinite(c) /\ RLeq(Num(0), c)
        /\ RAdd(RAdd(confusion.tp, confusion.tn), RAdd(confusion.fp, confusion.fn))
              = Num(Cardinality(Elems))
        /\ (Num(0) \in MarginalSums => (numerator = Num(0) /\ mcc = Num(0)))

C10_Witness ==
    /\ returned
    /\ Cardinality(Elems) = 2
    /\ \A i \in Elems : Label(i) = Num(1)
    /\ confusion.tp = Num(1)
    /\ confusion.fn = Num(1)
    /\ radicand = Num(0)
    /\ mcc = Num(0)
====
